---- MODULE Spec2Model ----
(***************************************************************************)
(* Model of ZettlrIPC (source/main/zettlr-ipc.js): the listener on the     *)
(* `message` channel, dispatch, send, handleEvent and runCall.             *)
(*                                                                         *)
(* One Message step is the complete handling of one inbound envelope.  The *)
(* variables msg .. fault describe the handling of that envelope and are   *)
(* cleared when the listener returns to the event loop; the others are the *)
(* backend's lasting state.                                                *)
(***************************************************************************)
EXTENDS Integers, Sequences, FiniteSets, TLC

VARIABLES
  registry,       \* command names the Command Registry recognises
  win,            \* id of the window getWindow() returns, 0 when there is none
  winCount,       \* number of windows created so far
  config,         \* the Config Store's keys
  customCSS,      \* contents of the custom CSS file
  customCSSPath,  \* path of the custom CSS file
  currentFile,    \* hash of the open file, 0 when none
  currentDir,     \* hash of the current directory, 0 when none
  dict,           \* TRUE once this._app.dict is set
  citeproc,       \* TRUE once global.citeproc is set
  msg,            \* the inbound envelope being handled (NoMsg when idle)
  route,          \* the branch of the listener that handled msg
  invoked,        \* dispatcher methods entered, in order
  execs,          \* handler bodies executed, in order: <<path, name, argument>>
  pushes,         \* calls of send(command, content), in order
  sent,           \* webContents.send deliveries, in order
  logs,           \* console output, in order
  drags,          \* startDrag calls
  calls,          \* calls into the collaborators, in order
  raised,         \* exceptions thrown, caught or not, in order
  fault,          \* TRUE when an exception left the listener uncaught
  req,            \* the push-API call or synchronous request being handled
  returned,       \* values assigned to event.returnValue, in order
  result,         \* what the push-API call returned to its caller
  focusSeen,      \* what BrowserWindow.getFocusedWindow() yielded
  order,          \* config writes, collaborator calls and pushes, in order
  dirs,           \* the autoloader's directory listing
  loaded,         \* the handlers the autoloader instantiated, in order
  loaderDone      \* TRUE once the autoloader has returned

vars == <<registry, win, winCount, config, customCSS, customCSSPath,
          currentFile, currentDir, dict, citeproc, msg, route, invoked,
          execs, pushes, sent, logs, drags, calls, raised, fault, req,
          returned, result, focusSeen, order, dirs, loaded, loaderDone>>

persistent == <<registry, win, winCount, config, customCSS, customCSSPath,
                currentFile, currentDir, dict, citeproc>>

loaderVars == <<dirs, loaded, loaderDone>>

-----------------------------------------------------------------------------
(* Bounds *)

MaxWindows == 1

-----------------------------------------------------------------------------
(* JavaScript values *)

Undefined == [t |-> "undefined"]
Null == [t |-> "null"]
Num(n) == [t |-> "num", v |-> n]
Str(s) == [t |-> "str", v |-> s]
Bool(b) == [t |-> "bool", v |-> b]
Obj(f) == [t |-> "obj", v |-> f]
EmptyObj == Obj(<<>>)
Ext(name) == [t |-> "ext", v |-> name]

\* o.k for a value that has properties; undefined when the property is absent
GetProp(o, k) == IF o.t = "obj" /\ k \in DOMAIN o.v THEN o.v[k] ELSE Undefined

\* reading a property of undefined or null throws a TypeError
Nullish(o) == o.t \in {"undefined", "null"}

\* arg[k] of an envelope; undefined when the envelope lacks the property
Prop(arg, k) == IF k \in DOMAIN arg THEN arg[k] ELSE Undefined

\* arg.command as the switches compare it; "undefined" when there is none
CommandOf(arg) == IF "command" \in DOMAIN arg THEN arg.command ELSE "undefined"

\* parseInt(x) on the values a hash arrives as; -1 stands for NaN
parseInt(x) ==
  CASE x.t = "num" -> x.v
    [] x.t = "str" /\ x.v = "7" -> 7
    [] x.t = "str" /\ x.v = "42" -> 42
    [] OTHER -> -1

-----------------------------------------------------------------------------
(* Collaborators *)

FileHashes == {7, 42}
DirHashes == {3}
CSSPaths == {"/data/custom.css", "/home/custom.css"}

FilePath(h) == IF h = 7 THEN "/notes/a.md" ELSE "/notes/b.md"
FileObj(h) == [t |-> "file", hash |-> h, path |-> FilePath(h)]

\* findFile({ hash }): the file with that hash, or null
findFile(h) == IF h.t = "num" /\ h.v \in FileHashes THEN FileObj(h.v) ELSE Null

\* findExact(term): the file the term names exactly, or null
findExact(term) == IF term.t = "num" /\ term.v \in FileHashes THEN FileObj(term.v) ELSE Null

\* file.withContent()
withContent(f) == [t |-> "filecontent", hash |-> f.hash, path |-> f.path,
                   content |-> Ext("content")]

ToWindow(id) == [kind |-> "window", id |-> id]
ToSender == [kind |-> "sender", id |-> 0]

\* the router itself, as send returns it
This == Ext("this")

-----------------------------------------------------------------------------
(* The handling of one envelope is computed on a record m that holds the   *)
(* lasting state the handlers write and the trace of the handling.         *)

Machine ==
  [config |-> config, customCSS |-> customCSS, win |-> win,
   route |-> "none", invoked |-> <<>>, execs |-> <<>>, pushes |-> <<>>,
   sent |-> <<>>, logs |-> <<>>, drags |-> <<>>, calls |-> <<>>,
   raised |-> <<>>, returned |-> <<>>, order |-> <<>>, ret |-> Undefined,
   fault |-> FALSE]

Log(m, what) == [m EXCEPT !.logs = Append(@, what)]
Call(m, method, arg) ==
  [m EXCEPT !.calls = Append(@, <<method, arg>>),
            !.order = Append(@, <<"call", method>>)]
SetConfig(m, cfg) ==
  [m EXCEPT !.config = cfg, !.order = Append(@, <<"config", "set">>)]
SetReturnValue(m, v) == [m EXCEPT !.returned = Append(@, v)]
Throw(m, what) == [m EXCEPT !.fault = TRUE, !.raised = Append(@, what)]
Catch(m) == [m EXCEPT !.fault = FALSE]
Return(m, v) == [m EXCEPT !.ret = v]
Enter(m, method) == [m EXCEPT !.invoked = Append(@, method)]
Exec(m, path, name, arg) == [m EXCEPT !.execs = Append(@, <<path, name, arg>>)]
Deliver(m, to, channel, payload) ==
  [m EXCEPT !.sent = Append(@, [to |-> to, channel |-> channel, payload |-> payload])]

\* send without the test for a window: webContents of null is read
send_NoWindowTest(m, command, content) ==
  LET c == IF content = Undefined THEN EmptyObj ELSE content
      p == [command |-> command, content |-> c]
      m1 == [m EXCEPT !.pushes = Append(@, p),
                      !.order = Append(@, <<"push", command>>)]
  IN IF m.win = 0
       THEN Throw(m1, "TypeError")
       ELSE Return(Deliver(m1, ToWindow(m.win), "message", p), This)

\* send that keeps the webContents of the window it first saw
send_CachedWindow(m, command, content) ==
  LET c == IF content = Undefined THEN EmptyObj ELSE content
      p == [command |-> command, content |-> c]
      m1 == [m EXCEPT !.pushes = Append(@, p),
                      !.order = Append(@, <<"push", command>>)]
  IN IF winCount = 0
       THEN Return(m1, This)
       ELSE Return(Deliver(m1, ToWindow(1), "message", p), This)

\* send (command, content = {})
send(m, command, content) ==
  LET c == IF content = Undefined THEN EmptyObj ELSE content
      p == [command |-> command, content |-> c]
      m1 == [m EXCEPT !.pushes = Append(@, p),
                      !.order = Append(@, <<"push", command>>)]
  IN IF m.win = 0
       THEN Return(m1, This)
       ELSE Return(Deliver(m1, ToWindow(m.win), "message", p), This)

-----------------------------------------------------------------------------
(* The Command Registry (Zettlr.runCommand), as the design describes it:   *)
(* the handler that responds to the name is run with the content and its   *)
(* result returned; a name no handler responds to raises "unknown          *)
(* command".  hThrows says whether the handler that runs fails.            *)

runCommand(m, cmd, cnt, hThrows) ==
  LET m0 == Enter(m, "runCommand")
  IN IF cmd \in registry
       THEN LET m1 == Exec(m0, "registry", cmd, cnt)
            IN IF hThrows THEN Throw(m1, "handler_failure") ELSE Return(m1, Str("ok"))
       ELSE Throw(m0, "unknown_command")

\* getConfig().bulkSet(patch): every known key the patch names is set
bulkSet(cfg, patch) ==
  [k \in DOMAIN cfg |->
     IF patch.t = "obj" /\ k \in DOMAIN patch.v /\ patch.v[k].t = "bool"
       THEN patch.v[k].v ELSE cfg[k]]

\* getConfig().setCustomCSS(content): writes the file, reports success
setCustomCSS(m, content) ==
  IF content.t = "str"
    THEN Return([m EXCEPT !.customCSS = content.v], Bool(TRUE))
    ELSE Return(m, Bool(FALSE))

-----------------------------------------------------------------------------
(* handleEvent *)

\* the case labels of handleEvent's switch
EventBuiltins ==
  {"app-quit", "win-maximise", "win-minimise", "win-close", "win-menu",
   "get-paths", "file-get-quicklook", "file-get", "dir-select",
   "file-modified", "set-target", "dir-open", "close-root", "file-search",
   "force-open", "toggle-theme", "toggle-snippets", "get-preferences",
   "get-pdf-preferences", "get-tags-preferences", "update-config",
   "update-tags", "get-tags", "get-tags-database", "handle-drop",
   "request-stats-data", "citeproc-get-ids", "citeproc-make-bibliography"}

\* get-paths with the two markers pushed in the other order
eventGetPaths_DirFirst(e) ==
  LET m1 == send(Call(e, "getPathDummies", Undefined), "paths-update", Ext("pathDummies"))
      m2 == send(m1, "dir-set-current",
                 IF currentDir # 0 THEN Num(currentDir) ELSE Null)
      m3 == send(m2, "file-set-current",
                 IF currentFile # 0 THEN Num(currentFile) ELSE Null)
  IN IF currentFile # 0
       THEN send(m3, "file-open", withContent(FileObj(currentFile)))
       ELSE m3

\* case 'get-paths'
eventGetPaths(e) ==
  LET m1 == send(Call(e, "getPathDummies", Undefined), "paths-update", Ext("pathDummies"))
      m2 == send(m1, "file-set-current",
                 IF currentFile # 0 THEN Num(currentFile) ELSE Null)
      m3 == send(m2, "dir-set-current",
                 IF currentDir # 0 THEN Num(currentDir) ELSE Null)
  IN IF currentFile # 0
       THEN send(m3, "file-open", withContent(FileObj(currentFile)))
       ELSE m3

\* case 'file-search'
eventFileSearch(e, cnt) ==
  IF Nullish(cnt) THEN Throw(e, "TypeError")
  ELSE LET h == GetProp(cnt, "hash")
           m1 == Call(e, "findFile", h)
       IN IF findFile(h) = Null
            THEN Throw(m1, "TypeError")
            ELSE send(Call(m1, "search", GetProp(cnt, "terms")),
                      "file-search-result",
                      Obj([hash |-> h, result |-> Ext("searchResult")]))

\* toggle-theme writing the key of the neighbouring case
eventToggleTheme_Snippets(e) ==
  send(SetConfig(e, [e.config EXCEPT !.snippets = ~@]), "config-update", Undefined)

\* case 'toggle-theme'
eventToggleTheme(e) ==
  send(SetConfig(e, [e.config EXCEPT !.darkTheme = ~@]), "config-update", Undefined)

\* update-config reloading the dictionary without testing for it
eventUpdateConfig_NoDictTest(e, cnt) ==
  LET m1 == send(SetConfig(e, bulkSet(e.config, cnt)), "config-update", Undefined)
  IN IF dict THEN Call(m1, "dict.reload", Undefined) ELSE Throw(m1, "TypeError")

\* case 'update-config'
eventUpdateConfig(e, cnt) ==
  LET m1 == send(SetConfig(e, bulkSet(e.config, cnt)), "config-update", Undefined)
  IN IF dict THEN Call(m1, "dict.reload", Undefined) ELSE m1

\* default case of handleEvent's switch
eventDefault(e) == Log(e, "unknown_command")

\* the switch of handleEvent; focus is what BrowserWindow.getFocusedWindow()
\* yields: "none", "normal" or "maximized"
eventSwitch(m, cmd, cnt, focus) ==
  LET e == Exec(m, "event", IF cmd \in EventBuiltins THEN cmd ELSE "default", cnt)
  IN CASE cmd = "app-quit" -> Call(e, "app.quit", Undefined)
       [] cmd = "win-maximise" ->
            IF focus = "none" THEN e
            ELSE IF focus = "maximized" THEN Call(e, "unmaximize", Undefined)
            ELSE Call(e, "maximize", Undefined)
       [] cmd = "win-minimise" ->
            IF focus # "none" THEN Call(e, "minimize", Undefined) ELSE e
       [] cmd = "win-close" ->
            IF focus # "none" THEN Call(e, "close", Undefined) ELSE e
       [] cmd = "win-menu" ->
            IF Nullish(cnt) THEN Throw(e, "TypeError")
            ELSE Call(e, "popupMenu", Obj([x |-> GetProp(cnt, "x"), y |-> GetProp(cnt, "y")]))
       [] cmd = "get-paths" -> eventGetPaths(e)
       [] cmd = "file-get-quicklook" ->
            IF findFile(cnt) = Null
              THEN Throw(Call(e, "findFile", cnt), "TypeError")
              ELSE send(Call(e, "findFile", cnt), "file-quicklook", withContent(findFile(cnt)))
       [] cmd = "file-get" -> Call(e, "sendFile", cnt)
       [] cmd = "dir-select" -> Call(e, "selectDir", cnt)
       [] cmd = "file-modified" -> Call(e, "setModified", Undefined)
       [] cmd = "set-target" -> Call(e, "targets.set", cnt)
       [] cmd = "dir-open" -> Call(e, "open", Undefined)
       [] cmd = "close-root" -> Call(e, "close-root", cnt)
       [] cmd = "file-search" -> eventFileSearch(e, cnt)
       [] cmd = "force-open" ->
            IF findExact(cnt) # Null
              THEN Call(Call(e, "findExact", cnt), "sendFile", Num(findExact(cnt).hash))
              ELSE Call(e, "findExact", cnt)
       [] cmd = "toggle-theme" ->
            eventToggleTheme(e)
       [] cmd = "toggle-snippets" ->
            send(SetConfig(e, [e.config EXCEPT !.snippets = ~@]), "config-update", Undefined)
       [] cmd = "get-preferences" ->
            send(e, "preferences",
                 [t |-> "prefs", config |-> e.config,
                  supportedLangs |-> Ext("supportedLangs"),
                  availableDicts |-> Ext("dictionaries")])
       [] cmd = "get-pdf-preferences" ->
            send(e, "pdf-preferences", [t |-> "config", config |-> e.config])
       [] cmd = "get-tags-preferences" ->
            send(Call(e, "getTags.get", Undefined), "tags-preferences", Ext("tags"))
       [] cmd = "update-config" ->
            eventUpdateConfig(e, cnt)
       [] cmd = "update-tags" ->
            send(Call(e, "getTags.update", cnt), "set-tags", cnt)
       [] cmd = "get-tags" ->
            send(Call(e, "getTags.get", Undefined), "set-tags", Ext("tags"))
       [] cmd = "get-tags-database" ->
            send(Call(e, "tags.get", Undefined), "tags-database", Ext("tagsDatabase"))
       [] cmd = "handle-drop" -> Call(e, "handleAddRoots", cnt)
       [] cmd = "request-stats-data" ->
            send(Call(e, "getStats", Undefined), "stats-data", Ext("stats"))
       [] cmd = "citeproc-get-ids" ->
            send(e, "citeproc-ids",
                 IF citeproc THEN Ext("ids") ELSE [t |-> "array", v |-> <<>>])
       [] cmd = "citeproc-make-bibliography" ->
            IF citeproc
              THEN send(Call(e, "makeBibliography", Undefined),
                        "citeproc-bibliography", Ext("bibliography"))
              ELSE Throw(e, "TypeError")
       [] OTHER -> eventDefault(e)

\* handleEvent (cmd, cnt): the registry first; whatever it throws is caught
\* and the switch runs
handleEvent(m, cmd, cnt, hThrows, focus) ==
  LET r == runCommand(Enter(m, "handleEvent"), cmd, cnt, hThrows)
  IN IF ~r.fault
       THEN r
       ELSE eventSwitch(Catch(r), cmd, cnt, focus)

\* dispatch (arg)
dispatch(m, arg, hThrows, focus) ==
  LET content == IF "content" \in DOMAIN arg THEN arg.content ELSE EmptyObj
  IN handleEvent(Enter(m, "dispatch"), CommandOf(arg), content, hThrows, focus)

-----------------------------------------------------------------------------
(* runCall *)

\* the case labels of runCall's switch
CallBuiltins ==
  {"win-maximise", "win-minimise", "win-close", "request-files",
   "make-standalone", "get-tags-database", "get-custom-css",
   "get-custom-css-path", "set-custom-css"}

\* get-custom-css-path answering with the file's contents
callGetCustomCSSPath_Contents(e) == Return(e, Str(e.customCSS))

\* case 'get-custom-css-path'
callGetCustomCSSPath(e) == Return(e, Str(customCSSPath))

\* runCall's default case without its `return null`
callDefault_NoReturn(e) == Log(e, "unknown_command")

\* default case of runCall's switch
callDefault(e) == Return(Log(e, "unknown_command"), Null)

\* win-close of runCall minimising the window instead
callWinClose_Minimise(e, focus) ==
  IF focus # "none" THEN Call(e, "minimize", Undefined) ELSE e

\* case 'win-close' of runCall
callWinClose(e, focus) ==
  IF focus # "none" THEN Call(e, "close", Undefined) ELSE e

\* runCall (cmd, arg): the switch only; a case that ends in `break` returns
\* undefined
runCall(m, cmd, arg, focus) ==
  LET e == Exec(Enter(m, "runCall"), "call",
                IF cmd \in CallBuiltins THEN cmd ELSE "default", arg)
  IN CASE cmd = "win-maximise" ->
            IF focus = "none" THEN e
            ELSE IF focus = "maximized" THEN Call(e, "unmaximize", Undefined)
            ELSE Call(e, "maximize", Undefined)
       [] cmd = "win-minimise" ->
            IF focus # "none" THEN Call(e, "minimize", Undefined) ELSE e
       [] cmd = "win-close" -> callWinClose(e, focus)
       [] cmd = "request-files" ->
            IF Nullish(arg) THEN Throw(e, "TypeError")
            ELSE Return(Call(e, "askFile",
                             Obj([filters |-> GetProp(arg, "filters"),
                                  multiSel |-> GetProp(arg, "multiSel")])),
                        Ext("askFile"))
       [] cmd = "make-standalone" -> Return(Call(e, "openQL", arg), Bool(TRUE))
       [] cmd = "get-tags-database" ->
            Return(Call(e, "tags.get", Undefined), Ext("tagsDatabase"))
       [] cmd = "get-custom-css" -> Return(e, Str(e.customCSS))
       [] cmd = "get-custom-css-path" -> callGetCustomCSSPath(e)
       [] cmd = "set-custom-css" -> setCustomCSS(e, arg)
       [] OTHER -> callDefault(e)

-----------------------------------------------------------------------------
(* The listener on the `message` channel *)

\* the chain of tests without the test for a command
Classify_NoCommandTest(arg) ==
  IF CommandOf(arg) = "file-drag-start" THEN "drag"
  ELSE IF "cypher" \in DOMAIN arg /\ arg.cypher # "" THEN "call"
  ELSE IF CommandOf(arg) = "ql-get-file" THEN "quicklook"
  ELSE "dispatch"

\* the chain of tests with the callback tested before the drag
Classify_CallFirst(arg) ==
  IF "command" \notin DOMAIN arg THEN "nocommand"
  ELSE IF "cypher" \in DOMAIN arg /\ arg.cypher # "" THEN "call"
  ELSE IF CommandOf(arg) = "file-drag-start" THEN "drag"
  ELSE IF CommandOf(arg) = "ql-get-file" THEN "quicklook"
  ELSE "dispatch"

\* the chain of tests at the head of the listener, first match wins
Classify(arg) ==
  IF "command" \notin DOMAIN arg THEN "nocommand"
  ELSE IF CommandOf(arg) = "file-drag-start" THEN "drag"
  ELSE IF "cypher" \in DOMAIN arg /\ arg.cypher # "" THEN "call"
  ELSE IF CommandOf(arg) = "ql-get-file" THEN "quicklook"
  ELSE "dispatch"

\* branch 'file-drag-start'
onDragStart(m, arg) ==
  IF Nullish(Prop(arg, "content")) THEN Throw(m, "TypeError")
  ELSE LET h == Num(parseInt(GetProp(arg.content, "hash")))
           m1 == Call(m, "findFile", h)
       IN IF findFile(h) = Null
            THEN Throw(m1, "TypeError")
            ELSE [m1 EXCEPT !.drags =
                    Append(@, [file |-> findFile(h).path,
                               icon |-> "/assets/dragicon.png"])]

\* branch of the asynchronous callback: the envelope goes back to the
\* sender with returnValue set
onCall(m, arg, focus) ==
  LET r == runCall(m, CommandOf(arg), Prop(arg, "content"), focus)
      reply == [k \in DOMAIN arg \cup {"returnValue"} |->
                  IF k = "returnValue" THEN r.ret ELSE arg[k]]
  IN IF r.fault THEN r ELSE Deliver(r, ToSender, "message", reply)

\* ql-get-file answered through send(), to the active window
onQuicklook_ViaSend(m, arg) ==
  LET h == Prop(arg, "content")
      m1 == Call(m, "findFile", h)
  IN IF findFile(h) = Null
       THEN Throw(m1, "TypeError")
       ELSE send(m1, "file", withContent(findFile(h)))

\* branch 'ql-get-file'
onQuicklook(m, arg) ==
  LET h == Prop(arg, "content")
      m1 == Call(m, "findFile", h)
  IN IF findFile(h) = Null
       THEN Throw(m1, "TypeError")
       ELSE Deliver(m1, ToSender, "file", withContent(findFile(h)))

\* ipc.on('message', (event, arg) => ...)
onMessage(m, arg, hThrows, focus) ==
  LET c == Classify(arg)
      m0 == [m EXCEPT !.route = c]
  IN CASE c = "nocommand" -> Log(m0, "no_command")
       [] c = "drag" -> onDragStart(m0, arg)
       [] c = "call" -> onCall(m0, arg, focus)
       [] c = "quicklook" -> onQuicklook(m0, arg)
       [] OTHER -> dispatch(m0, arg, hThrows, focus)

-----------------------------------------------------------------------------
(* global.ipc: the push API of the backend.  Each arrow function has a     *)
(* block body and returns undefined.                                       *)

\* notify: (msg) => { this.send('notify', msg) }
notify(m, text) == Return(send(m, "notify", text), Undefined)

\* notifyError: (msg) => { this.send('notify-error', msg) }
notifyError(m, err) == Return(send(m, "notify-error", err), Undefined)

\* updateFile: (file) => { this.send('file-replace', { hash, file: file.getMetadata() }) }
updateFile(m, file) ==
  Return(send(Call(m, "getMetadata", Num(file.hash)), "file-replace",
              Obj([hash |-> Num(file.hash), file |-> Ext("metadata")])),
         Undefined)

\* one call of the push API, or of send itself, by a backend component
pushCall(m, call) ==
  CASE call.api = "notify" -> notify(m, call.arg)
    [] call.api = "notifyError" -> notifyError(m, call.arg)
    [] call.api = "updateFile" -> updateFile(m, call.arg)
    [] OTHER -> send(m, call.arg.command, call.arg.content)

ApiCalls ==
  {[api |-> "notify", arg |-> Str("saved")],
   [api |-> "notifyError", arg |-> Obj([title |-> Str("export failed")])],
   [api |-> "updateFile", arg |-> FileObj(7)],
   [api |-> "send", arg |-> [command |-> "paths-update", content |-> Ext("pathDummies")]],
   [api |-> "send", arg |-> [command |-> "config-update", content |-> Undefined]]}

-----------------------------------------------------------------------------
(* The synchronous channels: the renderer blocks until event.returnValue   *)
(* is assigned.                                                            *)

\* global.config.get(key)
configGet(cfg, key) ==
  IF key.t = "str" /\ key.v \in DOMAIN cfg THEN Bool(cfg[key.v]) ELSE Undefined

\* ipc.on('config', (event, key) => ...)
onConfig(m, key) == SetReturnValue(m, configGet(m.config, key))

\* ipc.on('typo', (event, message) => ...)
onTypo(m, message) ==
  IF GetProp(message, "type") = Str("check")
    THEN IF dict
           THEN SetReturnValue(Call(m, "dict.check", GetProp(message, "term")), Ext("checked"))
           ELSE SetReturnValue(m, Str("not-ready"))
  ELSE IF GetProp(message, "type") = Str("suggest")
    THEN IF dict
           THEN SetReturnValue(Call(m, "dict.suggest", GetProp(message, "term")), Ext("suggestions"))
           ELSE SetReturnValue(m, [t |-> "array", v |-> <<>>])
  ELSE m

\* ipc.on('getCitation', (event, idList) => ...)
onGetCitation(m, idList) ==
  IF citeproc
    THEN SetReturnValue(Call(m, "getCitation", idList), Ext("citation"))
    ELSE Throw(m, "TypeError")

\* ipc.on('updateItems', (event, idList) => ...)
onUpdateItems(m, idList) ==
  IF citeproc
    THEN SetReturnValue(Call(m, "updateItems", idList), Ext("updated"))
    ELSE Throw(m, "TypeError")

\* one request on a synchronous channel
onSync(m, rq) ==
  CASE rq.channel = "config" -> onConfig(m, rq.payload)
    [] rq.channel = "typo" -> onTypo(m, rq.payload)
    [] rq.channel = "getCitation" -> onGetCitation(m, rq.payload)
    [] OTHER -> onUpdateItems(m, rq.payload)

SyncRequests ==
  {[channel |-> "config", payload |-> Str(k)] : k \in {"darkTheme", "bogus"}}
    \cup {[channel |-> "typo", payload |-> Obj([type |-> Str(ty), term |-> Str("helo")])] :
            ty \in {"check", "suggest", "add"}}
    \cup {[channel |-> c, payload |-> Ext("idList")] : c \in {"getCitation", "updateItems"}}

-----------------------------------------------------------------------------
(* Inbound envelopes *)

RegistryNames == {"file-save", "dir-select"}

Commands ==
  {"file-drag-start", "ql-get-file", "file-save", "dir-select", "bogus",
   "get-paths", "toggle-theme", "update-config", "file-get-quicklook",
   "file-search", "win-maximise", "request-files", "get-custom-css",
   "get-custom-css-path", "set-custom-css", "get-tags-database",
   "win-minimise", "win-close", "citeproc-get-ids",
   "citeproc-make-bibliography"}

\* the contents tried with a command, besides leaving the content out
ContentsFor(cmd) ==
  CASE cmd = "file-drag-start" ->
         {Obj([hash |-> Num(7)]), Obj([hash |-> Str("42")]), Obj([hash |-> Num(99)])}
    [] cmd \in {"ql-get-file", "file-get-quicklook"} -> {Num(7), Num(99)}
    [] cmd = "file-search" ->
         {Obj([hash |-> Num(7), terms |-> Ext("terms")]),
          Obj([hash |-> Num(99), terms |-> Ext("terms")])}
    [] cmd = "update-config" -> {Obj([darkTheme |-> Bool(TRUE)])}
    [] cmd = "set-custom-css" -> {Str("body{}")}
    [] cmd = "request-files" -> {Obj([filters |-> Ext("filters"), multiSel |-> Bool(FALSE)])}
    [] cmd = "dir-select" -> {Num(3)}
    [] OTHER -> {}

Cyphers == {"", "x"}

Envelopes ==
  LET base == {[command |-> c] : c \in Commands}
                \cup UNION {{[command |-> c, content |-> k] : k \in ContentsFor(c)} : c \in Commands}
                \cup {<<>>, [content |-> Num(7)]}
  IN base \cup {e @@ [cypher |-> y] : e \in base, y \in Cyphers}

NoMsg == [idle |-> TRUE]
NoReq == [idle |-> TRUE]

\* a listener or a push-API call is running
Busy == msg # NoMsg \/ req # NoReq

FocusStates == {"none", "normal", "maximized"}

\* the focus states that make a difference to the envelope
FocusFor(arg) ==
  IF "command" \in DOMAIN arg /\ arg.command \in {"win-maximise", "win-minimise", "win-close"}
    THEN FocusStates ELSE {"none"}

\* whether a registry handler can run, and so can fail, for the envelope
ThrowsFor(arg) ==
  IF Classify(arg) = "dispatch" /\ CommandOf(arg) \in registry
    THEN BOOLEAN ELSE {FALSE}

-----------------------------------------------------------------------------
(* Specification *)

Init ==
  /\ registry \in SUBSET RegistryNames
  /\ win = 0
  /\ winCount = 0
  /\ config = [darkTheme |-> FALSE, snippets |-> TRUE]
  /\ customCSS = ""
  /\ customCSSPath \in CSSPaths
  /\ currentFile \in {0} \cup FileHashes
  /\ currentDir \in {0} \cup DirHashes
  /\ dict = FALSE
  /\ citeproc = FALSE
  /\ msg = NoMsg
  /\ route = "none"
  /\ invoked = <<>>
  /\ execs = <<>>
  /\ pushes = <<>>
  /\ sent = <<>>
  /\ logs = <<>>
  /\ drags = <<>>
  /\ calls = <<>>
  /\ raised = <<>>
  /\ fault = FALSE
  /\ req = NoReq
  /\ returned = <<>>
  /\ result = Undefined
  /\ focusSeen = "none"
  /\ order = <<>>
  /\ dirs = <<>>
  /\ loaded = <<>>
  /\ loaderDone = TRUE

Idle ==
  /\ msg' = NoMsg
  /\ route' = "none"
  /\ invoked' = <<>>
  /\ execs' = <<>>
  /\ pushes' = <<>>
  /\ sent' = <<>>
  /\ logs' = <<>>
  /\ drags' = <<>>
  /\ calls' = <<>>
  /\ raised' = <<>>
  /\ fault' = FALSE
  /\ req' = NoReq
  /\ returned' = <<>>
  /\ result' = Undefined
  /\ focusSeen' = "none"
  /\ order' = <<>>

\* the renderer sends an envelope on the `message` channel
Message ==
  \E arg \in Envelopes : \E hThrows \in ThrowsFor(arg) : \E focus \in FocusFor(arg) :
    LET r == onMessage(Machine, arg, hThrows, focus)
    IN /\ ~Busy
       /\ msg' = arg
       /\ req' = NoReq
       /\ returned' = r.returned
       /\ result' = Undefined
       /\ focusSeen' = focus
       /\ order' = r.order
       /\ route' = r.route
       /\ invoked' = r.invoked
       /\ execs' = r.execs
       /\ pushes' = r.pushes
       /\ sent' = r.sent
       /\ logs' = r.logs
       /\ drags' = r.drags
       /\ calls' = r.calls
       /\ raised' = r.raised
       /\ fault' = r.fault
       /\ config' = r.config
       /\ customCSS' = r.customCSS
       /\ UNCHANGED <<registry, win, winCount, customCSSPath, currentFile,
                      currentDir, dict, citeproc>>
       /\ UNCHANGED loaderVars

\* the listener has returned to the event loop
Returned ==
  /\ Busy
  /\ Idle
  /\ UNCHANGED persistent
  /\ UNCHANGED loaderVars

\* the window host creates the main window
CreateWindow ==
  /\ ~Busy
  /\ win = 0
  /\ winCount < MaxWindows
  /\ win' = winCount + 1
  /\ winCount' = winCount + 1
  /\ Idle
  /\ UNCHANGED <<registry, config, customCSS, customCSSPath, currentFile,
                 currentDir, dict, citeproc>>
  /\ UNCHANGED loaderVars

\* the main window is closed
CloseWindow ==
  /\ ~Busy
  /\ win # 0
  /\ win' = 0
  /\ Idle
  /\ UNCHANGED <<registry, winCount, config, customCSS, customCSSPath,
                 currentFile, currentDir, dict, citeproc>>
  /\ UNCHANGED loaderVars

\* a backend component calls notify, notifyError, updateFile or send
PushAPI ==
  \E call \in ApiCalls :
    LET r == pushCall(Machine, call)
    IN /\ ~Busy
       /\ req' = call
       /\ msg' = NoMsg
       /\ route' = "none"
       /\ invoked' = r.invoked
       /\ execs' = r.execs
       /\ pushes' = r.pushes
       /\ sent' = r.sent
       /\ logs' = r.logs
       /\ drags' = r.drags
       /\ calls' = r.calls
       /\ raised' = r.raised
       /\ fault' = r.fault
       /\ returned' = r.returned
       /\ result' = r.ret
       /\ focusSeen' = "none"
       /\ order' = r.order
       /\ config' = r.config
       /\ customCSS' = r.customCSS
       /\ UNCHANGED <<registry, win, winCount, customCSSPath, currentFile,
                      currentDir, dict, citeproc>>
       /\ UNCHANGED loaderVars

Next == Message \/ Returned \/ CreateWindow \/ CloseWindow \/ PushAPI

-----------------------------------------------------------------------------
(* The router with its optional subsystems: the dictionary and the         *)
(* citation engine appear some time after construction, and the renderer   *)
(* uses the synchronous channels.                                          *)

InitSub ==
  /\ Init
  /\ customCSSPath = "/data/custom.css"
  /\ currentFile = 0
  /\ currentDir = 0

\* the renderer sends a request on a synchronous channel
SyncRequest ==
  \E rq \in SyncRequests :
    LET r == onSync(Machine, rq)
    IN /\ ~Busy
       /\ req' = rq
       /\ msg' = NoMsg
       /\ route' = "none"
       /\ invoked' = r.invoked
       /\ execs' = r.execs
       /\ pushes' = r.pushes
       /\ sent' = r.sent
       /\ logs' = r.logs
       /\ drags' = r.drags
       /\ calls' = r.calls
       /\ raised' = r.raised
       /\ fault' = r.fault
       /\ returned' = r.returned
       /\ result' = Undefined
       /\ focusSeen' = "none"
       /\ order' = r.order
       /\ config' = r.config
       /\ customCSS' = r.customCSS
       /\ UNCHANGED <<registry, win, winCount, customCSSPath, currentFile,
                      currentDir, dict, citeproc>>
       /\ UNCHANGED loaderVars

\* the dictionary has loaded: this._app.dict is set
DictLoaded ==
  /\ ~Busy
  /\ ~dict
  /\ dict' = TRUE
  /\ Idle
  /\ UNCHANGED <<registry, win, winCount, config, customCSS, customCSSPath,
                 currentFile, currentDir, citeproc>>
  /\ UNCHANGED loaderVars

\* the citation engine has loaded: global.citeproc is set
CiteprocLoaded ==
  /\ ~Busy
  /\ ~citeproc
  /\ citeproc' = TRUE
  /\ Idle
  /\ UNCHANGED <<registry, win, winCount, config, customCSS, customCSSPath,
                 currentFile, currentDir, dict>>
  /\ UNCHANGED loaderVars

NextSub ==
  \/ Message
  \/ Returned
  \/ CreateWindow
  \/ CloseWindow
  \/ SyncRequest
  \/ DictLoaded
  \/ CiteprocLoaded

SpecSub == InitSub /\ [][NextSub]_vars

-----------------------------------------------------------------------------
(* The command autoloader, run once at startup                             *)

File(base, ext) == [base |-> base, ext |-> ext]

\* what the commands directory can hold, in the order readdir lists it
AllFiles ==
  << File("README", "md"), File("_autoload", "js"), File("dir-new", "js"),
     File("export", "js"), File("file-save", "js"), File("file-save", "jsx"),
     File("package", "json"), File("zettlr-command", "js") >>

\* the autoloader's own file is always in its directory
AlwaysThere == {i \in 1..Len(AllFiles) : AllFiles[i] = File("_autoload", "js")}

RECURSIVE ListingOf(_, _)
ListingOf(S, i) ==
  IF i > Len(AllFiles) THEN <<>>
  ELSE (IF i \in S THEN <<AllFiles[i]>> ELSE <<>>) \o ListingOf(S, i + 1)

\* /\.jsx?$/.test(elem)
isJavascript(file) == file.ext \in {"js", "jsx"}

\* file === '_autoload.js' || file === 'zettlr-command.js'
isLoaderBuiltin(file) ==
  file = File("_autoload", "js") \/ file = File("zettlr-command", "js")

isEligible(file) == ~isLoaderBuiltin(file)

\* the name the command of a module responds to
CommandNameOf(file) == file.base

\* new Command(app)
Command(file) == [file |-> file, name |-> CommandNameOf(file)]

\* module.exports = async function (app)
autoload(listing) ==
  LET filtered == SelectSeq(listing, isJavascript)
      files == SelectSeq(filtered, isEligible)
  IN [i \in 1..Len(files) |-> Command(files[i])]

InitLoader ==
  /\ registry = {}
  /\ win = 0
  /\ winCount = 0
  /\ config = [darkTheme |-> FALSE, snippets |-> TRUE]
  /\ customCSS = ""
  /\ customCSSPath = "/data/custom.css"
  /\ currentFile = 0
  /\ currentDir = 0
  /\ dict = FALSE
  /\ citeproc = FALSE
  /\ msg = NoMsg
  /\ route = "none"
  /\ invoked = <<>>
  /\ execs = <<>>
  /\ pushes = <<>>
  /\ sent = <<>>
  /\ logs = <<>>
  /\ drags = <<>>
  /\ calls = <<>>
  /\ raised = <<>>
  /\ fault = FALSE
  /\ req = NoReq
  /\ returned = <<>>
  /\ result = Undefined
  /\ focusSeen = "none"
  /\ order = <<>>
  /\ \E S \in SUBSET (1..Len(AllFiles)) :
       /\ AlwaysThere \subseteq S
       /\ dirs = ListingOf(S, 1)
  /\ loaded = <<>>
  /\ loaderDone = FALSE

\* the autoloader runs to its return
Autoload ==
  /\ ~loaderDone
  /\ loaded' = autoload(dirs)
  /\ loaderDone' = TRUE
  /\ UNCHANGED dirs
  /\ UNCHANGED persistent
  /\ UNCHANGED <<msg, route, invoked, execs, pushes, sent, logs, drags, calls,
                 raised, fault, req, returned, result, focusSeen, order>>

NextLoader == Autoload

SpecLoader == InitLoader /\ [][NextLoader]_vars

Spec == Init /\ [][Next]_vars

-----------------------------------------------------------------------------
(* Properties *)

Handling == msg # NoMsg
HasCommand == Handling /\ "command" \in DOMAIN msg
HasCypher == Handling /\ "cypher" \in DOMAIN msg /\ msg.cypher # ""
Content == Prop(msg, "content")

\* deliveries on the `message` channel
MessageSends == {i \in 1..Len(sent) : sent[i].channel = "message"}

\* the envelope a correlated call is answered with: msg plus returnValue
IsReplyTo(s, arg) ==
  /\ s.to = ToSender
  /\ s.channel = "message"
  /\ DOMAIN s.payload = DOMAIN arg \cup {"returnValue"}
  /\ \A k \in DOMAIN arg : s.payload[k] = arg[k]

\* C1: an envelope without a `command` property reaches no dispatcher
\* (dispatch, handleEvent, runCommand, runCall), runs no handler, starts no
\* drag, and nothing is sent or pushed; its only effect is one error log.
C1_MissingCommandDropped ==
  (Handling /\ ~HasCommand) =>
    /\ invoked = <<>>
    /\ execs = <<>>
    /\ drags = <<>>
    /\ calls = <<>>
    /\ pushes = <<>>
    /\ sent = <<>>
    /\ logs = <<"no_command">>
    /\ ~fault

C1_Witness ==
  /\ msg = [content |-> Num(7), cypher |-> "x"]
  /\ win # 0
  /\ logs = <<"no_command">>

Builtins == EventBuiltins \cup CallBuiltins

\* C2: a dispatched command whose name exactly one of the registry and the
\* built-in table recognises runs that one handler, once, and runs neither
\* a handler nor the unknown-command default of the other path (so N
\* dispatched commands run N handlers).  A name counts as the registry's
\* alone when neither switch has it, and as built-in alone when the switch
\* of the path that carries it has it.
C2_ExactlyOneHandler ==
  (HasCommand /\ route \in {"dispatch", "call"}) =>
    LET cmd == msg.command
        table == IF route = "dispatch" THEN EventBuiltins ELSE CallBuiltins
        cnt == IF route = "dispatch" /\ Content = Undefined THEN EmptyObj ELSE Content
    IN /\ (cmd \in registry /\ cmd \notin Builtins) => execs = << <<"registry", cmd, cnt>> >>
       /\ (cmd \notin registry /\ cmd \in table) =>
            execs = << <<IF route = "dispatch" THEN "event" ELSE "call", cmd, cnt>> >>

\* C3: when the registry recognises the name and its handler fails, the
\* failure leaves the dispatcher as a fault; no built-in case and no
\* unknown-command diagnostic runs after it.
C3_HandlerFailurePropagates ==
  (Handling /\ Len(raised) > 0 /\ raised[1] = "handler_failure") =>
    /\ fault
    /\ Len(execs) = 1
    /\ logs = <<>>

\* C4: a correlated call whose name the registry recognises runs the
\* registry's handler with the content, and the handler's result is the
\* reply's returnValue.
C4_CallResolvesInRegistry ==
  (HasCommand /\ route = "call" /\ msg.command \in registry) =>
    /\ Len(execs) >= 1
    /\ execs[1][1] = "registry"
    /\ execs[1][2] = msg.command
    /\ Len(sent) = 1
    /\ sent[1].payload.returnValue = Str("ok")

UnknownName(arg) ==
  /\ arg # NoMsg
  /\ "command" \in DOMAIN arg
  /\ arg.command \notin registry \cup Builtins

\* C5: for a name neither the registry nor the built-in table has, a call
\* is answered with null and an event pushes and sends nothing; either way
\* no configuration, file or collaborator is touched, exactly one
\* unknown-command diagnostic is logged and no fault leaves the listener.
C5_UnknownCommandHarmless ==
  [][(UnknownName(msg') /\ route' \in {"dispatch", "call"}) =>
       /\ logs' = <<"unknown_command">>
       /\ ~fault'
       /\ config' = config
       /\ customCSS' = customCSS
       /\ calls' = <<>>
       /\ drags' = <<>>
       /\ pushes' = <<>>
       /\ route' = "dispatch" => sent' = <<>>
       /\ route' = "call" =>
            /\ Len(sent') = 1
            /\ IsReplyTo(sent'[1], msg')
            /\ sent'[1].payload.returnValue = Null]_vars

C5_Witness ==
  /\ msg = [command |-> "bogus", cypher |-> "x"]
  /\ win # 0
  /\ logs = <<"unknown_command">>
  /\ Len(sent) = 1
  /\ sent[1].payload.returnValue = Null

\* C6: every envelope handled as a correlated call is answered by exactly
\* one envelope on the `message` channel, sent to the sender, equal to the
\* inbound envelope but for returnValue; nothing else is sent or pushed.
C6_CallAnsweredOnce ==
  (Handling /\ route = "call") =>
    /\ Len(sent) = 1
    /\ IsReplyTo(sent[1], msg)
    /\ pushes = <<>>

\* C7: a correlated call get-custom-css-path is answered with the same
\* correlationId and with the Config Store's custom CSS path as returnValue.
C7_CustomCSSPathRoundTrip ==
  (HasCommand /\ route = "call" /\ msg.command = "get-custom-css-path") =>
    /\ Len(sent) = 1
    /\ IsReplyTo(sent[1], msg)
    /\ sent[1].payload.cypher = msg.cypher
    /\ sent[1].payload.returnValue = Str(customCSSPath)

C7_Witness ==
  /\ msg = [command |-> "get-custom-css-path", cypher |-> "x"]
  /\ customCSS = "body{}"
  /\ config.darkTheme
  /\ Len(sent) = 1
  /\ sent[1].payload.returnValue = Str(customCSSPath)

\* C8: envelopes are classified first match wins in the order missing
\* command, file-drag-start, correlated call, ql-get-file, generic dispatch,
\* and only the class that matched acts: a file-drag-start is never
\* answered or dispatched even with a correlationId (and starts the drag
\* when its file lookup succeeds), and an empty correlationId gets no reply.
C8_ClassificationOrder ==
  Handling =>
    LET isDrag == HasCommand /\ msg.command = "file-drag-start"
        isQl == HasCommand /\ msg.command = "ql-get-file"
        replies == {i \in 1..Len(sent) : sent[i].to = ToSender /\ sent[i].channel = "message"}
    IN /\ ~HasCommand => (route = "nocommand" /\ invoked = <<>> /\ drags = <<>> /\ sent = <<>>)
       /\ isDrag =>
            /\ route = "drag"
            /\ invoked = <<>>
            /\ sent = <<>>
            /\ Len(drags) = IF fault THEN 0 ELSE 1
       /\ (HasCommand /\ ~isDrag /\ HasCypher) =>
            (route = "call" /\ invoked = <<"runCall">> /\ drags = <<>>)
       /\ (isQl /\ ~HasCypher) =>
            (route = "quicklook" /\ invoked = <<>> /\ drags = <<>> /\ replies = {})
       /\ (HasCommand /\ ~isDrag /\ ~isQl /\ ~HasCypher) =>
            /\ route = "dispatch"
            /\ Len(invoked) >= 2
            /\ invoked[1] = "dispatch"
            /\ invoked[2] = "handleEvent"
            /\ \A i \in 1..Len(invoked) : invoked[i] # "runCall"
            /\ drags = <<>>
            /\ replies = {}
       /\ ("cypher" \in DOMAIN msg /\ msg.cypher = "") => replies = {}

C8_Witness ==
  /\ msg = [command |-> "file-drag-start", content |-> Obj([hash |-> Num(7)]), cypher |-> "x"]
  /\ drags = <<[file |-> "/notes/a.md", icon |-> "/assets/dragicon.png"]>>
  /\ sent = <<>>

\* C9 as stated: handling a ql-get-file request causes no delivery on the
\* `message` channel and enters no dispatcher.
C9_QuicklookNeverOnMessageChannel ==
  (HasCommand /\ msg.command = "ql-get-file") =>
    /\ MessageSends = {}
    /\ invoked = <<>>

\* C9 amended: a ql-get-file request that is not a correlated call causes
\* no delivery on the `message` channel, no push and enters no dispatcher;
\* when the hash resolves, the file's content is the one delivery, on the
\* `file` channel, to the sender; when it does not, nothing is delivered.
C9_QuicklookUncorrelated ==
  (HasCommand /\ msg.command = "ql-get-file" /\ ~HasCypher) =>
    /\ MessageSends = {}
    /\ pushes = <<>>
    /\ invoked = <<>>
    /\ IF findFile(Content) # Null
         THEN sent = <<[to |-> ToSender, channel |-> "file",
                        payload |-> withContent(findFile(Content))]>>
         ELSE sent = <<>>

C9_Witness ==
  /\ msg = [command |-> "ql-get-file", content |-> Num(7)]
  /\ win # 0
  /\ Len(sent) = 1
  /\ sent[1].channel = "file"

\* C10: get-paths pushes paths-update, file-set-current with the open
\* file's hash or null, dir-set-current with the current directory's hash
\* or null, and then file-open with the file's content only if a file is
\* open; the active window receives exactly these, in this order.
C10_GetPathsOrder ==
  (HasCommand /\ route = "dispatch" /\ msg.command = "get-paths") =>
    LET n == IF currentFile # 0 THEN 4 ELSE 3
    IN /\ Len(pushes) = n
       /\ pushes[1].command = "paths-update"
       /\ pushes[2] = [command |-> "file-set-current",
                       content |-> IF currentFile # 0 THEN Num(currentFile) ELSE Null]
       /\ pushes[3] = [command |-> "dir-set-current",
                       content |-> IF currentDir # 0 THEN Num(currentDir) ELSE Null]
       /\ n = 4 => pushes[4] = [command |-> "file-open",
                                content |-> withContent(FileObj(currentFile))]
       /\ \A i \in 1..n : pushes[i].command = "file-open" => (i = 4)
       /\ IF win = 0 THEN sent = <<>>
          ELSE sent = [i \in 1..n |-> [to |-> ToWindow(win), channel |-> "message",
                                       payload |-> pushes[i]]]

C10_Witness ==
  /\ msg = [command |-> "get-paths"]
  /\ currentFile = 42
  /\ currentDir = 3
  /\ win # 0
  /\ Len(sent) = 4
  /\ sent[4].payload.command = "file-open"

IsApiCall(r) == r # NoReq /\ "api" \in DOMAIN r

\* C11: send without an active window delivers nothing, changes no state
\* and raises no error, and send returns the router itself with or without a
\* window; notify, notifyError and updateFile before a window exists or
\* after it was closed are no-ops that do not throw.
C11_SendWithoutWindow ==
  [][IsApiCall(req') =>
       /\ ~fault'
       /\ raised' = <<>>
       /\ win = 0 => sent' = <<>>
       /\ persistent' = persistent
       /\ req'.api = "send" => result' = This]_vars

C11_Witness ==
  /\ IsApiCall(req)
  /\ req.api = "notifyError"
  /\ winCount = 1
  /\ win = 0
  /\ Len(pushes) = 1
  /\ sent = <<>>
  /\ ~fault

\* C12: toggle-theme as an event negates darkTheme, leaves every other
\* config key as it was, and pushes exactly one config-update and nothing
\* else.
C12_ToggleTheme ==
  [][(msg' # NoMsg /\ "command" \in DOMAIN msg' /\ msg'.command = "toggle-theme"
        /\ route' = "dispatch") =>
       /\ config' = [config EXCEPT !.darkTheme = ~config.darkTheme]
       /\ pushes' = <<[command |-> "config-update", content |-> EmptyObj]>>
       /\ sent' = IF win = 0 THEN <<>>
                  ELSE <<[to |-> ToWindow(win), channel |-> "message",
                          payload |-> [command |-> "config-update", content |-> EmptyObj]]>>
       /\ ~fault']_vars

C12_Witness ==
  /\ msg = [command |-> "toggle-theme"]
  /\ config.darkTheme
  /\ config.snippets
  /\ win # 0
  /\ Len(sent) = 1

\* a file lookup of the handling found no file
LookupFailed ==
  \E i \in 1..Len(calls) : calls[i][1] = "findFile" /\ findFile(calls[i][2]) = Null

\* C13: a file lookup by hash that finds no file raises no uncaught fault:
\* the absence is pushed as notify-error, no drag is started and no file
\* content is sent.
C13_LookupFailureSurfaced ==
  (Handling /\ LookupFailed) =>
    /\ ~fault
    /\ \E i \in 1..Len(pushes) : pushes[i].command = "notify-error"
    /\ drags = <<>>
    /\ \A i \in 1..Len(sent) : sent[i].channel # "file"

C18_ContentDefaulted ==
  (HasCommand /\ "content" \notin DOMAIN msg) =>
    /\ \A i \in 1..Len(execs) : execs[i][3] = EmptyObj
    /\ route = "drag" => calls # <<>>
    /\ (route = "call" /\ msg.command = "request-files") => ~fault

WindowControls == {"win-maximise", "win-minimise", "win-close"}

\* what a window control does to the focused window
WindowCalls(cmd, focus) ==
  IF focus = "none" THEN <<>>
  ELSE IF cmd = "win-minimise" THEN << <<"minimize", Undefined>> >>
  ELSE IF cmd = "win-close" THEN << <<"close", Undefined>> >>
  ELSE IF focus = "maximized" THEN << <<"unmaximize", Undefined>> >>
  ELSE << <<"maximize", Undefined>> >>

\* the built-in case the handling ended in: a case label, or "default"
BuiltinCase == IF execs = <<>> THEN "none" ELSE execs[Len(execs)][2]

IsSync(r, channel) == r # NoReq /\ "channel" \in DOMAIN r /\ r.channel = channel
IsTypo(r, type) == IsSync(r, "typo") /\ GetProp(r.payload, "type") = Str(type)
IsEvent(arg, cmd) == arg # NoMsg /\ "command" \in DOMAIN arg /\ arg.command = cmd
EmptyArray == [t |-> "array", v |-> <<>>]

\* C14: while the dictionary or the citation engine is not initialised, a
\* request that uses it ends without an uncaught fault and with the
\* degraded result: typo check 'not-ready', typo suggest an empty list,
\* citeproc-get-ids a push of an empty list; citeproc-make-bibliography,
\* getCitation and updateItems do not dereference the absent engine.
C14_DegradesGracefully ==
  /\ (IsTypo(req, "check") /\ ~dict) => (returned = <<Str("not-ready")>> /\ ~fault)
  /\ (IsTypo(req, "suggest") /\ ~dict) => (returned = <<EmptyArray>> /\ ~fault)
  /\ (IsEvent(msg, "citeproc-get-ids") /\ route = "dispatch" /\ ~citeproc) =>
       (pushes = <<[command |-> "citeproc-ids", content |-> EmptyArray]>> /\ ~fault)
  /\ (IsEvent(msg, "citeproc-make-bibliography") /\ route = "dispatch" /\ ~citeproc) =>
       ~fault
  /\ ((IsSync(req, "getCitation") \/ IsSync(req, "updateItems")) /\ ~citeproc) => ~fault

\* C15: every request on the channels config and typo is answered: the
\* handler assigns returnValue exactly once, whatever the payload.
C15_SyncAnswered ==
  (IsSync(req, "config") \/ IsSync(req, "typo")) => Len(returned) = 1

\* C17: update-config applies the patch to the Config Store, then pushes
\* exactly one config-update, then reloads the dictionary if and only if
\* the dictionary is initialised; without a dictionary nothing is reloaded
\* and nothing faults.
C17_UpdateConfigOrder ==
  [][(IsEvent(msg', "update-config") /\ route' = "dispatch") =>
       /\ config' = bulkSet(config, IF "content" \in DOMAIN msg' THEN msg'.content ELSE EmptyObj)
       /\ Prop(msg', "content") = Obj([darkTheme |-> Bool(TRUE)]) =>
            (config'.darkTheme /\ config'.snippets = config.snippets)
       /\ pushes' = <<[command |-> "config-update", content |-> EmptyObj]>>
       /\ order' = << <<"config", "set">>, <<"push", "config-update">> >>
                     \o (IF dict THEN << <<"call", "dict.reload">> >> ELSE <<>>)
       /\ ~fault']_vars

C17_Witness ==
  /\ msg = [command |-> "update-config", content |-> Obj([darkTheme |-> Bool(TRUE)])]
  /\ dict
  /\ config.darkTheme
  /\ order = << <<"config", "set">>, <<"push", "config-update">>, <<"call", "dict.reload">> >>

LoadedNames == {loaded[i].name : i \in 1..Len(loaded)}

====
